---- MODULE Spec2Model ----
(***************************************************************************)
(* simpleStore: the React hooks useSimpleStore (window.localStorage /      *)
(* sessionStorage) and useChromeStore (chrome.storage.local / session),    *)
(* and the one-shot helper getFromChromeStore, of src/src/useSimpleStore.ts*)
(*                                                                         *)
(* A behaviour exercises one of the three units (variable hook, chosen in  *)
(* Init): the units share no code and no storage.  The host (the storage   *)
(* areas, the change events, React's state cells and render closures) is   *)
(* modelled as far as the code observes it.                                *)
(***************************************************************************)
EXTENDS Integers, Sequences, FiniteSets

\* ---------------------------------------------------------------- bounds
\* Largest number an updater may produce (the counter scenario needs 3).
MaxNum == 3
\* Longest string an updater may produce by prev + 1 on a string.
MaxLen == 1
\* Requests in flight to chrome.storage.
MaxRequests == 2
\* Events / callbacks queued for one context.
MaxInbox == 2
\* Inputs in one behaviour: mounts, calls of getFromChromeStore, renders that
\* change key or persist, setter calls, and writes by code outside the hooks
\* (another document, another extension context).
MaxOps == 4

\* ------------------------------------------------------------- JS values
Num(n) == [t |-> "num", v |-> n]
Str(s) == [t |-> "str", v |-> s]
Undefined == [t |-> "undefined", v |-> 0]
Null == [t |-> "null", v |-> 0]
NaN == [t |-> "NaN", v |-> 0]

\* A string is a sequence of one-character strings.
Q == "\""
BS == "\\"
DigitChars == <<"0", "1", "2", "3", "4", "5", "6", "7", "8", "9">>
IsDigit(c) == \E d \in 1..10 : DigitChars[d] = c
DigitVal(c) == (CHOOSE d \in 1..10 : DigitChars[d] = c) - 1

RECURSIVE Digits(_)
Digits(n) ==
  IF n < 10 THEN <<DigitChars[n + 1]>>
  ELSE Digits(n \div 10) \o <<DigitChars[(n % 10) + 1]>>

RECURSIVE NumVal(_)
NumVal(s) ==
  IF s = <<>> THEN 0
  ELSE NumVal(SubSeq(s, 1, Len(s) - 1)) * 10 + DigitVal(s[Len(s)])

\* JSON string escaping of the two characters of the alphabet that need it.
RECURSIVE Escape(_)
Escape(s) ==
  IF s = <<>> THEN <<>>
  ELSE (IF s[1] \in {Q, BS} THEN <<BS, s[1]>> ELSE <<s[1]>>) \o Escape(Tail(s))

RECURSIVE Unescape(_)
Unescape(s) ==
  IF s = <<>> THEN [ok |-> TRUE, out |-> <<>>]
  ELSE IF s[1] = Q THEN [ok |-> FALSE, out |-> <<>>]
  ELSE IF s[1] = BS THEN
    IF Len(s) >= 2 /\ s[2] \in {Q, BS}
    THEN LET r == Unescape(SubSeq(s, 3, Len(s)))
         IN  [ok |-> r.ok, out |-> <<s[2]>> \o r.out]
    ELSE [ok |-> FALSE, out |-> <<>>]
  ELSE LET r == Unescape(Tail(s))
       IN  [ok |-> r.ok, out |-> <<s[1]>> \o r.out]

\* String(v): the coercion JSON.parse and Storage.setItem apply to a
\* non-string argument.
JSString(v) ==
  CASE v.t = "str" -> v.v
    [] v.t = "num" -> Digits(v.v)
    [] v.t = "null" -> <<"n", "u", "l", "l">>
    [] v.t = "NaN" -> <<"N", "a", "N">>
    [] OTHER -> <<"u", "n", "d", "e", "f", "i", "n", "e", "d">>

\* JSON.stringify(v): a JS string, or undefined for undefined.
JSONstringify(v) ==
  CASE v.t = "num" -> Str(Digits(v.v))
    [] v.t = "str" -> Str(<<Q>> \o Escape(v.v) \o <<Q>>)
    [] v.t = "null" -> Str(<<"n", "u", "l", "l">>)
    [] v.t = "NaN" -> Str(<<"n", "u", "l", "l">>)
    [] OTHER -> Undefined

\* JSON.parse(x) on the modelled alphabet (non-negative integers, strings,
\* null): the parsed value, or the error thrown.  JSON.parse throws nothing
\* but SyntaxError on a value a storage area can hold.
JSONparse(x) ==
  LET s == JSString(x)
      n == Len(s)
      body == IF n >= 2 THEN Unescape(SubSeq(s, 2, n - 1))
              ELSE [ok |-> FALSE, out |-> <<>>]
  IN  IF n >= 1 /\ (\A j \in 1..n : IsDigit(s[j])) /\ (n = 1 \/ s[1] # "0")
        THEN [ok |-> TRUE, val |-> Num(NumVal(s)), error |-> "none"]
      ELSE IF s = <<"n", "u", "l", "l">>
        THEN [ok |-> TRUE, val |-> Null, error |-> "none"]
      ELSE IF n >= 2 /\ s[1] = Q /\ s[n] = Q /\ body.ok
        THEN [ok |-> TRUE, val |-> Str(body.out), error |-> "none"]
      ELSE [ok |-> FALSE, val |-> Undefined, error |-> "SyntaxError"]

\* JS truthiness of a string-or-null (getItem's result).
Truthy(entry) == entry.has /\ entry.val.v # <<>>

\* prev + 1, the updater of the counter scenario, on every JS value.
Inc(prev) ==
  CASE prev.t = "num" -> Num(prev.v + 1)
    [] prev.t = "str" -> Str(prev.v \o <<"1">>)
    [] prev.t = "null" -> Num(1)
    [] OTHER -> NaN

\* Whether the model's bounds admit Inc(prev).
IncBounded(prev) ==
  CASE prev.t = "num" -> prev.v < MaxNum
    [] prev.t = "str" -> Len(prev.v) < MaxLen
    [] OTHER -> TRUE

\* ------------------------------------------------------------ the domain
Hooks == {"useSimpleStore", "useChromeStore", "getFromChromeStore"}
\* Component instances (callers, for getFromChromeStore) and the contexts
\* (documents of one origin sharing both Web Storage areas; extension
\* contexts) they run in.
Inst == {"A", "B"}
Ctx == {"c1", "c2"}
Keys == {"count", "flag"}
Areas == {"local", "session"}
Defaults == {Num(0), Str(<<"d">>)}
\* The setter's argument: a literal, or the updater (prev) => prev + 1.
Literals == {Str(<<"a">>)}
ValueActions ==
  {[isFn |-> TRUE, lit |-> Undefined]} \cup {[isFn |-> FALSE, lit |-> v] : v \in Literals}
\* Raw texts written by code outside the hooks: a number, the invalid JSON
\* text yes, and the empty string.
ExtTexts == {<<"7">>, <<"y", "e", "s">>, <<>>}

NoEntry == [has |-> FALSE, val |-> Undefined]
Entry(v) == [has |-> TRUE, val |-> v]

\* const storage = persist ? <local> : <session>
\* Variant: the two areas exchanged.
\* Variant: persist ignored.
StorageAreaLocalOnly(p) == "local"
StorageAreaSwapped(p) == IF p THEN "session" ELSE "local"
StorageArea(p) == IF p THEN "local" ELSE "session"

VARIABLES
  hook,          \* the unit this behaviour exercises
  active,        \* the instances this behaviour exercises
  ctx,           \* the context each instance runs in
  storage,       \* [area][key]: the entry, or NoEntry (getItem: null; get: undefined)
  listeners,     \* registered change handlers, each with the key and persist it closed over
  requests,      \* chrome.storage requests issued and not yet applied, in issue order
  inbox,         \* per context: events and callbacks queued for delivery
  mounted, key, persist, defaultValue,   \* per instance: its props
  state,         \* per instance: React's state cell (what setValue last set)
  value,         \* per instance: const value of the latest render (what its closures see)
  hasLoaded,
  threw,         \* per instance: the error its last operation let escape
  promise,       \* per caller: the promise of its getFromChromeStore call
  nOps,          \* inputs so far
  hist           \* per instance: what has happened to it (history, read by no action)

vars == <<hook, active, ctx, storage, listeners, requests, inbox, mounted, key, persist,
          defaultValue, state, value, hasLoaded, threw, promise, nOps, hist>>

UsedCtx == {ctx[i] : i \in active}
NoPromise ==
  [status |-> "none", key |-> "count", defaultValue |-> Undefined, persist |-> FALSE,
   value |-> Undefined, reads |-> 0, settles |-> 0, got |-> NoEntry]

\* ----------------------------------------------------------- the history
\* set: the instance's last setter call (its key, persist and the value it
\*   computed; ok: the write returned normally and no other writer has
\*   written the entry since; applied: the write has reached the area).
\* incRun: the number of consecutive (prev) => prev + 1 calls since a mount
\*   on an absent key with defaultValue 0 and persist = true, with nothing
\*   else in between; -1 otherwise.
\* fresh: mounted on a key with no entry, and no setter call, change
\*   notification or change of props since.
\* read: the outcome of the last initial-read callback since the mount.
\* note: whether the last change notification handled was for the
\*   instance's own key and area ("own", "otherKey", "otherArea").
\* observed: the value of the last change notification the handler took.
\* initial: the value the last initial read found.
NoSet ==
  [called |-> FALSE, ok |-> FALSE, applied |-> FALSE, key |-> "count", persist |-> FALSE,
   val |-> Undefined]
NoHist ==
  [set |-> NoSet, incRun |-> -1, fresh |-> FALSE, read |-> "none", note |-> "none",
   observed |-> NoEntry, initial |-> NoEntry]

\* The area the documentation gives persist: true is the durable (local)
\* area, false the session area.
SelectedArea(p) == IF p THEN "local" ELSE "session"
SameSlot(h, a, k) == h.set.called /\ SelectedArea(h.set.persist) = a /\ h.set.key = k
\* A parse with the raw value as the fallback.
ParseOrRaw(x) == IF JSONparse(x).ok THEN JSONparse(x).val ELSE x
\* How change notification m relates to instance i's current key and persist.
Noted(i, m) ==
  IF m.key # key[i] THEN "otherKey"
  ELSE IF m.area # SelectedArea(persist[i]) THEN "otherArea"
  ELSE "own"
\* Another writer than i wrote [a][k]: i's run is broken, and its last write,
\* if it was to that entry, is overwritten.
Overwritten(h, a, k) ==
  [h EXCEPT !.incRun = -1, !.set.ok = h.set.ok /\ ~SameSlot(h, a, k)]

InitCore ==
  /\ storage = [a \in Areas |-> [k \in Keys |-> NoEntry]]
  /\ listeners = {}
  /\ requests = <<>>
  /\ inbox = [c \in Ctx |-> <<>>]
  /\ mounted = [i \in Inst |-> FALSE]
  /\ key = [i \in Inst |-> "count"]
  /\ persist = [i \in Inst |-> FALSE]
  /\ defaultValue = [i \in Inst |-> Undefined]
  /\ state = [i \in Inst |-> Undefined]
  /\ value = [i \in Inst |-> Undefined]
  /\ hasLoaded = [i \in Inst |-> FALSE]
  /\ threw = [i \in Inst |-> "none"]
  /\ promise = [i \in Inst |-> NoPromise]
  /\ nOps = 0
  /\ hist = [i \in Inst |-> NoHist]

\* ------------------------------------------------------------- the host
Room(targets) == \A c \in targets : Len(inbox[c]) < MaxInbox
Post(targets, msg) ==
  [c \in Ctx |-> IF c \in targets THEN Append(inbox[c], msg) ELSE inbox[c]]
Message(kind, to, a, k, e) ==
  [kind |-> kind, inst |-> to, area |-> a, key |-> k, entry |-> e]
Stored(a, k, e) == [storage EXCEPT ![a][k] = e]
ListenersOf(i) == {l \in listeners : l.inst = i}
Listener(i, k, p) == [inst |-> i, key |-> k, persist |-> p]
\* The instance is gone: its props and state cells are dropped.
Gone(i) ==
  /\ mounted' = [mounted EXCEPT ![i] = FALSE]
  /\ key' = [key EXCEPT ![i] = "count"]
  /\ persist' = [persist EXCEPT ![i] = FALSE]
  /\ defaultValue' = [defaultValue EXCEPT ![i] = Undefined]
  /\ state' = [state EXCEPT ![i] = Undefined]
  /\ value' = [value EXCEPT ![i] = Undefined]
  /\ hasLoaded' = [hasLoaded EXCEPT ![i] = FALSE]
  /\ threw' = [threw EXCEPT ![i] = "none"]
  /\ hist' = [hist EXCEPT ![i] = NoHist]

\* A write to a Web Storage area by document c (or by a document outside the
\* model, c = "ext"): the storage event is queued for every other document,
\* and only when the entry changed.
WebTargets(c, a, k, e) == IF storage[a][k] = e THEN {} ELSE UsedCtx \ {c}

\* -------------------------------------------------------- useSimpleStore
\* useState(() => { ... }): the value, or the error JSON.parse throws.
\* Variant: the stored text adopted without JSON.parse.
UseStateInitRaw(storedValue, d) ==
  IF Truthy(storedValue) THEN [ok |-> TRUE, val |-> storedValue.val, error |-> "none"]
  ELSE [ok |-> TRUE, val |-> d, error |-> "none"]
UseStateInit(storedValue, d) ==
  IF Truthy(storedValue) THEN JSONparse(storedValue.val)
  ELSE [ok |-> TRUE, val |-> d, error |-> "none"]

\* handleStorageChange of useSimpleStore, with the entry getItem returned:
\* the state cell and the error thrown afterwards.
\* Variant: the stored text adopted without JSON.parse.
SimpleHandleStorageChangeRaw(storedValue, cur) ==
  IF storedValue.has
  THEN [state |-> storedValue.val, threw |-> "none"]
  ELSE [state |-> cur, threw |-> "none"]
\* Variant: no test for null, and JSON.parse(null) is null.
SimpleHandleStorageChangeUnguarded(storedValue, cur) ==
  IF storedValue.has
  THEN LET r == JSONparse(storedValue.val)
       IN  IF r.ok THEN [state |-> r.val, threw |-> "none"]
           ELSE [state |-> cur, threw |-> r.error]
  ELSE [state |-> Null, threw |-> "none"]
SimpleHandleStorageChange(storedValue, cur) ==
  IF storedValue.has
  THEN LET r == JSONparse(storedValue.val)
       IN  IF r.ok THEN [state |-> r.val, threw |-> "none"]
           ELSE [state |-> cur, threw |-> r.error]
  ELSE [state |-> cur, threw |-> "none"]

\* valueAction instanceof Function ? valueAction(value) : valueAction
ValueToStore(valueAction, v) == IF valueAction.isFn THEN Inc(v) ELSE valueAction.lit
ActionBounded(valueAction, v) == valueAction.isFn => IncBounded(v)

\* What storage.setItem(key, JSON.stringify(v)) leaves under key.
SetItemEntry(v) == Entry(Str(JSString(JSONstringify(v))))

SimpleMount(i, k, d, p) ==
  /\ hook = "useSimpleStore"
  /\ ~mounted[i]
  /\ nOps < MaxOps
  /\ nOps' = nOps + 1
  /\ LET found == storage[StorageArea(p)][k]
         init == UseStateInit(found, d)
     IN  IF init.ok
         THEN /\ mounted' = [mounted EXCEPT ![i] = TRUE]
              /\ key' = [key EXCEPT ![i] = k]
              /\ persist' = [persist EXCEPT ![i] = p]
              /\ defaultValue' = [defaultValue EXCEPT ![i] = d]
              /\ state' = [state EXCEPT ![i] = init.val]
              /\ value' = [value EXCEPT ![i] = init.val]
              /\ threw' = [threw EXCEPT ![i] = "none"]
              /\ listeners' = listeners \cup {Listener(i, k, p)}
              /\ hist' = [hist EXCEPT ![i] =
                   [NoHist EXCEPT
                      !.fresh = ~storage[SelectedArea(p)][k].has,
                      !.incRun = IF ~storage[SelectedArea(p)][k].has /\ d = Num(0) /\ p
                                 THEN 0 ELSE -1,
                      !.initial = IF found.has /\ JSONparse(found.val).ok
                                  THEN Entry(JSONparse(found.val).val) ELSE NoEntry]]
         ELSE /\ threw' = [threw EXCEPT ![i] = init.error]
              /\ UNCHANGED <<mounted, key, persist, defaultValue, state, value, listeners,
                             hist>>
  /\ UNCHANGED <<hook, active, ctx, storage, requests, inbox, hasLoaded, promise>>

\* Variant: a change of key repeats the initial read.
SimpleRenderReread(i, k, p) ==
  /\ hook = "useSimpleStore"
  /\ mounted[i]
  /\ nOps' = IF k # key[i] \/ p # persist[i] THEN nOps + 1 ELSE nOps
  /\ nOps' <= MaxOps
  /\ LET init == UseStateInit(storage[StorageArea(p)][k], defaultValue[i])
     IN  state' = [state EXCEPT ![i] = IF k # key[i] /\ init.ok THEN init.val ELSE @]
  /\ value' = [value EXCEPT ![i] = state'[i]]
  /\ key' = [key EXCEPT ![i] = k]
  /\ persist' = [persist EXCEPT ![i] = p]
  /\ listeners' = IF k # key[i] \/ StorageArea(p) # StorageArea(persist[i])
                  THEN (listeners \ ListenersOf(i)) \cup {Listener(i, k, p)}
                  ELSE listeners
  /\ threw' = [threw EXCEPT ![i] = "none"]
  /\ hist' = IF k # key[i] \/ p # persist[i]
             THEN [hist EXCEPT ![i].fresh = FALSE, ![i].incRun = -1]
             ELSE hist
  /\ UNCHANGED <<hook, active, ctx, storage, requests, inbox, mounted, defaultValue,
                 hasLoaded, promise>>
\* A render of a mounted component with props (k, p), and the commit of its
\* effects: the effect of deps [key, storage] re-registers the listener.
SimpleRender(i, k, p) ==
  /\ hook = "useSimpleStore"
  /\ mounted[i]
  /\ nOps' = IF k # key[i] \/ p # persist[i] THEN nOps + 1 ELSE nOps
  /\ nOps' <= MaxOps
  /\ value' = [value EXCEPT ![i] = state[i]]
  /\ key' = [key EXCEPT ![i] = k]
  /\ persist' = [persist EXCEPT ![i] = p]
  /\ listeners' = IF k # key[i] \/ StorageArea(p) # StorageArea(persist[i])
                  THEN (listeners \ ListenersOf(i)) \cup {Listener(i, k, p)}
                  ELSE listeners
  /\ threw' = [threw EXCEPT ![i] = "none"]
  /\ hist' = IF k # key[i] \/ p # persist[i]
             THEN [hist EXCEPT ![i].fresh = FALSE, ![i].incRun = -1]
             ELSE hist
  /\ UNCHANGED <<hook, active, ctx, storage, requests, inbox, mounted, defaultValue, state,
                 hasLoaded, promise>>

\* Variant: the effect returns no cleanup.
SimpleUnmountNoCleanup(i) ==
  /\ hook = "useSimpleStore"
  /\ mounted[i]
  /\ Gone(i)
  /\ UNCHANGED <<hook, active, ctx, storage, listeners, requests, inbox, promise, nOps>>
SimpleUnmount(i) ==
  /\ hook = "useSimpleStore"
  /\ mounted[i]
  /\ Gone(i)
  /\ listeners' = listeners \ ListenersOf(i)
  /\ UNCHANGED <<hook, active, ctx, storage, requests, inbox, promise, nOps>>

\* Variant: storage.setItem before setValue, so a failed write leaves the
\* state cell alone.
SimpleSetStoredValueWriteFirst(i, valueAction, quota) ==
  /\ hook = "useSimpleStore"
  /\ mounted[i]
  /\ nOps < MaxOps
  /\ nOps' = nOps + 1
  /\ ActionBounded(valueAction, value[i])
  /\ LET valueToStore == ValueToStore(valueAction, value[i])
         a == StorageArea(persist[i])
         e == SetItemEntry(valueToStore)
         targets == WebTargets(ctx[i], a, key[i], e)
         mine == [hist[i] EXCEPT
                    !.set = [called |-> TRUE, ok |-> ~quota, applied |-> ~quota,
                             key |-> key[i], persist |-> persist[i], val |-> valueToStore],
                    !.fresh = FALSE, !.incRun = -1]
     IN  IF quota
         THEN /\ storage[a][key[i]] # e
              /\ threw' = [threw EXCEPT ![i] = "QuotaExceededError"]
              /\ hist' = [hist EXCEPT ![i] = mine]
              /\ UNCHANGED <<storage, inbox, state>>
         ELSE /\ Room(targets)
              /\ state' = [state EXCEPT ![i] = valueToStore]
              /\ threw' = [threw EXCEPT ![i] = "none"]
              /\ storage' = Stored(a, key[i], e)
              /\ inbox' = Post(targets, Message("storage", "all", a, key[i], NoEntry))
              /\ hist' = [j \in Inst |->
                   IF j = i THEN mine ELSE Overwritten(hist[j], a, key[i])]
  /\ UNCHANGED <<hook, active, ctx, listeners, requests, mounted, key, persist,
                 defaultValue, value, hasLoaded, promise>>
\* setStoredValue(valueAction); quota says whether setItem throws
\* QuotaExceededError, which it does after setValue was called.  A setItem
\* that leaves the entry as it is needs no room and does not throw.
SimpleSetStoredValue(i, valueAction, quota) ==
  /\ hook = "useSimpleStore"
  /\ mounted[i]
  /\ nOps < MaxOps
  /\ nOps' = nOps + 1
  /\ ActionBounded(valueAction, value[i])
  /\ LET valueToStore == ValueToStore(valueAction, value[i])
         a == StorageArea(persist[i])
         e == SetItemEntry(valueToStore)
         targets == WebTargets(ctx[i], a, key[i], e)
         mine == [hist[i] EXCEPT
                    !.set = [called |-> TRUE, ok |-> ~quota, applied |-> ~quota,
                             key |-> key[i], persist |-> persist[i], val |-> valueToStore],
                    !.fresh = FALSE,
                    !.incRun = IF ~quota /\ valueAction.isFn /\ hist[i].incRun >= 0
                               THEN hist[i].incRun + 1 ELSE -1]
     IN  /\ state' = [state EXCEPT ![i] = valueToStore]
         /\ IF quota
            THEN /\ storage[a][key[i]] # e
                 /\ threw' = [threw EXCEPT ![i] = "QuotaExceededError"]
                 /\ hist' = [hist EXCEPT ![i] = mine]
                 /\ UNCHANGED <<storage, inbox>>
            ELSE /\ Room(targets)
                 /\ threw' = [threw EXCEPT ![i] = "none"]
                 /\ storage' = Stored(a, key[i], e)
                 /\ inbox' = Post(targets, Message("storage", "all", a, key[i], NoEntry))
                 /\ hist' = [j \in Inst |->
                      IF j = i THEN mine ELSE Overwritten(hist[j], a, key[i])]
  /\ UNCHANGED <<hook, active, ctx, listeners, requests, mounted, key, persist,
                 defaultValue, value, hasLoaded, promise>>

\* Another document sets or removes an entry (e = NoEntry).
WebExternalWrite(a, k, e) ==
  /\ hook = "useSimpleStore"
  /\ nOps < MaxOps
  /\ storage[a][k] # e
  /\ Room(UsedCtx)
  /\ storage' = Stored(a, k, e)
  /\ inbox' = Post(UsedCtx, Message("storage", "all", a, k, NoEntry))
  /\ nOps' = nOps + 1
  /\ hist' = [j \in Inst |-> Overwritten(hist[j], a, k)]
  /\ UNCHANGED <<hook, active, ctx, listeners, requests, mounted, key, persist,
                 defaultValue, state, value, hasLoaded, threw, promise>>

\* The "storage" event at the head of document c's queue is dispatched: every
\* listener registered in c runs.
SimpleAfterEvent(i) ==
  IF ListenersOf(i) = {} THEN [state |-> state[i], threw |-> threw[i]]
  ELSE LET l == CHOOSE l \in ListenersOf(i) : TRUE
       IN  SimpleHandleStorageChange(storage[StorageArea(l.persist)][l.key], state[i])

SimpleNoted(i, m) ==
  LET own == storage[SelectedArea(persist[i])][key[i]]
  IN  [hist[i] EXCEPT
         !.fresh = FALSE,
         !.note = Noted(i, m),
         !.observed = IF own.has /\ JSONparse(own.val).ok
                      THEN Entry(JSONparse(own.val).val) ELSE @]

SimpleDeliver(c) ==
  /\ hook = "useSimpleStore"
  /\ inbox[c] # <<>>
  /\ inbox' = [inbox EXCEPT ![c] = Tail(inbox[c])]
  /\ state' = [i \in Inst |-> IF ctx[i] = c THEN SimpleAfterEvent(i).state ELSE state[i]]
  /\ threw' = [i \in Inst |-> IF ctx[i] = c THEN SimpleAfterEvent(i).threw ELSE threw[i]]
  /\ hist' = [i \in Inst |-> IF ctx[i] = c /\ mounted[i]
                             THEN SimpleNoted(i, Head(inbox[c])) ELSE hist[i]]
  /\ UNCHANGED <<hook, active, ctx, storage, listeners, requests, mounted, key, persist,
                 defaultValue, value, hasLoaded, promise, nOps>>

WebExtEntries == {NoEntry} \cup {Entry(Str(t)) : t \in ExtTexts}

SimpleNext ==
  \/ \E i \in active, k \in Keys, d \in Defaults, p \in BOOLEAN : SimpleMount(i, k, d, p)
  \/ \E i \in active, k \in Keys, p \in BOOLEAN : SimpleRender(i, k, p)
  \/ \E i \in active : SimpleUnmount(i)
  \/ \E i \in active, va \in ValueActions, q \in BOOLEAN : SimpleSetStoredValue(i, va, q)
  \/ \E a \in Areas, k \in Keys, e \in WebExtEntries : WebExternalWrite(a, k, e)
  \/ \E c \in UsedCtx : SimpleDeliver(c)

\* -------------------------------------------------------- useChromeStore
Request(op, from, a, k, e) ==
  [op |-> op, inst |-> from, area |-> a, key |-> k, entry |-> e]

\* The callback of storage.get([key], ...) in the initial-read effect, with
\* the entry the read found: the state cell and hasLoaded afterwards.
\* Variant: setValue(result[key]) also when the key is absent.
ChromeReadCallbackUnguarded(entry, cur) ==
  [state |-> LET r == JSONparse(entry.val)
             IN  IF r.ok THEN r.val ELSE entry.val,
   hasLoaded |-> TRUE]
\* Variant: setHasLoaded(true) only when the key is present.
ChromeReadCallbackOnHit(entry, cur) ==
  [state |-> IF entry.has
             THEN LET r == JSONparse(entry.val)
                  IN  IF r.ok THEN r.val ELSE entry.val
             ELSE cur,
   hasLoaded |-> entry.has]
\* Variant: an entry that does not parse is dropped.
ChromeReadCallbackKeep(entry, cur) ==
  [state |-> IF entry.has
             THEN LET r == JSONparse(entry.val)
                  IN  IF r.ok THEN r.val ELSE cur
             ELSE cur,
   hasLoaded |-> TRUE]
ChromeReadCallback(entry, cur) ==
  [state |-> IF entry.has
             THEN LET r == JSONparse(entry.val)
                  IN  IF r.ok THEN r.val ELSE entry.val
             ELSE cur,
   hasLoaded |-> TRUE]

\* handleStorageChange of useChromeStore as registered by listener l (the
\* key and persist of the render whose effect registered it), on a change of
\* one key in area areaName carrying newValue (undefined for a removal).
\* Variant: the area test inverted.
ChromeHandleStorageChangeOtherArea(l, areaName, changedKey, newValue, cur) ==
  IF /\ (l.persist /\ areaName = "session") \/ (~l.persist /\ areaName = "local")
     /\ changedKey = l.key
  THEN LET r == JSONparse(newValue)
       IN  IF r.ok THEN r.val
           ELSE IF r.error = "SyntaxError" THEN newValue
           ELSE cur
  ELSE cur
ChromeHandleStorageChange(l, areaName, changedKey, newValue, cur) ==
  IF /\ (l.persist /\ areaName = "local") \/ (~l.persist /\ areaName = "session")
     /\ changedKey = l.key
  THEN LET r == JSONparse(newValue)
       IN  IF r.ok THEN r.val
           ELSE IF r.error = "SyntaxError" THEN newValue
           ELSE cur
  ELSE cur

\* The value storage.set({[key]: JSON.stringify(v)}) asks the area to hold.
SetEntry(v) == Entry(JSONstringify(v))

ChromeMount(i, k, d, p) ==
  /\ hook = "useChromeStore"
  /\ ~mounted[i]
  /\ nOps < MaxOps
  /\ Len(requests) < MaxRequests
  /\ nOps' = nOps + 1
  /\ mounted' = [mounted EXCEPT ![i] = TRUE]
  /\ key' = [key EXCEPT ![i] = k]
  /\ persist' = [persist EXCEPT ![i] = p]
  /\ defaultValue' = [defaultValue EXCEPT ![i] = d]
  /\ state' = [state EXCEPT ![i] = d]
  /\ value' = [value EXCEPT ![i] = d]
  /\ hasLoaded' = [hasLoaded EXCEPT ![i] = FALSE]
  /\ threw' = [threw EXCEPT ![i] = "none"]
  /\ requests' = Append(requests, Request("get", i, StorageArea(p), k, NoEntry))
  /\ listeners' = listeners \cup {Listener(i, k, p)}
  /\ hist' = [hist EXCEPT ![i] =
       [NoHist EXCEPT !.fresh = ~storage[SelectedArea(p)][k].has]]
  /\ UNCHANGED <<hook, active, ctx, storage, inbox, promise>>

\* A render of a mounted component with props (k, p), and the commit of its
\* effects: both effects have deps [key], so a change of persist alone
\* re-runs neither.
ChromeRender(i, k, p) ==
  /\ hook = "useChromeStore"
  /\ mounted[i]
  /\ nOps' = IF k # key[i] \/ p # persist[i] THEN nOps + 1 ELSE nOps
  /\ nOps' <= MaxOps
  /\ value' = [value EXCEPT ![i] = state[i]]
  /\ key' = [key EXCEPT ![i] = k]
  /\ persist' = [persist EXCEPT ![i] = p]
  /\ IF k # key[i]
     THEN /\ Len(requests) < MaxRequests
          /\ requests' = Append(requests, Request("get", i, StorageArea(p), k, NoEntry))
          /\ listeners' = (listeners \ ListenersOf(i)) \cup {Listener(i, k, p)}
     ELSE UNCHANGED <<requests, listeners>>
  /\ threw' = [threw EXCEPT ![i] = "none"]
  /\ hist' = IF k # key[i] \/ p # persist[i]
             THEN [hist EXCEPT ![i].fresh = FALSE]
             ELSE hist
  /\ UNCHANGED <<hook, active, ctx, storage, inbox, mounted, defaultValue, state,
                 hasLoaded, promise>>

\* Unmount: the listener is removed; a read still in flight is not cancelled,
\* and its callback sets the state of a component that is gone, which React
\* ignores: such reads are dropped here.
ChromeUnmount(i) ==
  /\ hook = "useChromeStore"
  /\ mounted[i]
  /\ Gone(i)
  /\ listeners' = listeners \ ListenersOf(i)
  /\ LET Kept(r) == ~(r.op = "get" /\ r.inst = i)
         Live(m) == ~(m.kind = "result" /\ m.inst = i)
     IN  /\ requests' = SelectSeq(requests, Kept)
         /\ inbox' = [c \in Ctx |-> SelectSeq(inbox[c], Live)]
  /\ UNCHANGED <<hook, active, ctx, storage, promise, nOps>>

ChromeSetStoredValue(i, valueAction) ==
  /\ hook = "useChromeStore"
  /\ mounted[i]
  /\ nOps < MaxOps
  /\ nOps' = nOps + 1
  /\ ActionBounded(valueAction, value[i])
  /\ Len(requests) < MaxRequests
  /\ LET valueToStore == ValueToStore(valueAction, value[i])
     IN  /\ state' = [state EXCEPT ![i] = valueToStore]
         /\ requests' = Append(requests,
               Request("set", i, StorageArea(persist[i]), key[i], SetEntry(valueToStore)))
         /\ hist' = [hist EXCEPT
               ![i].set = [called |-> TRUE, ok |-> TRUE, applied |-> FALSE,
                           key |-> key[i], persist |-> persist[i], val |-> valueToStore],
               ![i].fresh = FALSE]
  /\ threw' = [threw EXCEPT ![i] = "none"]
  /\ UNCHANGED <<hook, active, ctx, storage, listeners, inbox, mounted, key, persist,
                 defaultValue, value, hasLoaded, promise>>

\* Another extension context sets or removes an entry (e = NoEntry).
ChromeExternalWrite(a, k, e) ==
  /\ hook \in {"useChromeStore", "getFromChromeStore"}
  /\ nOps < MaxOps
  /\ Len(requests) < MaxRequests
  /\ requests' = Append(requests, Request(IF e.has THEN "set" ELSE "remove", "ext", a, k, e))
  /\ nOps' = nOps + 1
  /\ UNCHANGED <<hook, active, ctx, storage, listeners, inbox, mounted, key, persist,
                 defaultValue, state, value, hasLoaded, threw, promise, hist>>

\* chrome.storage applies the oldest request.  A read answers its caller; a
\* write that changes the entry fires onChanged in every context.
ChromeApplyRead ==
  /\ requests # <<>>
  /\ LET r == Head(requests)
     IN  /\ r.op \in {"get", "fetch"}
         /\ Room({ctx[r.inst]})
         /\ inbox' = Post({ctx[r.inst]},
               Message(IF r.op = "get" THEN "result" ELSE "fetched", r.inst, r.area, r.key,
                       storage[r.area][r.key]))
  /\ requests' = Tail(requests)
  /\ UNCHANGED <<hook, active, ctx, storage, listeners, mounted, key, persist, defaultValue,
                 state, value, hasLoaded, threw, promise, nOps, hist>>

\* The history of instance j once write r is applied: r is j's last setter
\* call if it is j's and no later write of j is queued behind it; a write
\* of j's own that a later one follows changes nothing; any other write to
\* the entry overwrites j's last write once that was applied.
Applied(h, j, r, later) ==
  IF ~SameSlot(h, r.area, r.key) THEN h
  ELSE IF r.inst = j
    THEN IF \E n \in 1..Len(later) : later[n].inst = j /\ later[n].op = "set"
         THEN h ELSE [h EXCEPT !.set.applied = TRUE]
  ELSE IF h.set.applied THEN [h EXCEPT !.set.ok = FALSE]
  ELSE h

ChromeApplyWrite ==
  /\ requests # <<>>
  /\ LET r == Head(requests)
         targets == IF storage[r.area][r.key] = r.entry THEN {} ELSE UsedCtx
     IN  /\ r.op \in {"set", "remove"}
         /\ Room(targets)
         /\ storage' = Stored(r.area, r.key, r.entry)
         /\ inbox' = Post(targets, Message("changed", "all", r.area, r.key, r.entry))
         /\ hist' = [j \in Inst |-> Applied(hist[j], j, r, Tail(requests))]
  /\ requests' = Tail(requests)
  /\ UNCHANGED <<hook, active, ctx, listeners, mounted, key, persist, defaultValue,
                 state, value, hasLoaded, threw, promise, nOps>>

ChromeDeliverResult(c) ==
  /\ hook = "useChromeStore"
  /\ inbox[c] # <<>>
  /\ LET m == Head(inbox[c])
         after == ChromeReadCallback(m.entry, state[m.inst])
     IN  /\ m.kind = "result"
         /\ state' = [state EXCEPT ![m.inst] = after.state]
         /\ hasLoaded' = [hasLoaded EXCEPT ![m.inst] = after.hasLoaded]
         /\ threw' = [threw EXCEPT ![m.inst] = "none"]
         /\ hist' = [hist EXCEPT
              ![m.inst].read = IF ~m.entry.has THEN "absent"
                               ELSE IF JSONparse(m.entry.val).ok THEN "parsed" ELSE "raw",
              ![m.inst].initial = IF m.entry.has THEN Entry(ParseOrRaw(m.entry.val)) ELSE @]
  /\ inbox' = [inbox EXCEPT ![c] = Tail(inbox[c])]
  /\ UNCHANGED <<hook, active, ctx, storage, listeners, requests, mounted, key, persist,
                 defaultValue, value, promise, nOps>>

NewValue(m) == IF m.entry.has THEN m.entry.val ELSE Undefined

ChromeAfterChange(i, m) ==
  IF ListenersOf(i) = {} THEN state[i]
  ELSE LET l == CHOOSE l \in ListenersOf(i) : TRUE
       IN  ChromeHandleStorageChange(l, m.area, m.key, NewValue(m), state[i])

ChromeNoted(i, m) ==
  [hist[i] EXCEPT
     !.fresh = FALSE,
     !.note = Noted(i, m),
     !.observed = IF \E l \in ListenersOf(i) :
                        l.key = m.key /\ SelectedArea(l.persist) = m.area
                  THEN Entry(ParseOrRaw(NewValue(m))) ELSE @]

ChromeDeliverChanged(c) ==
  /\ hook \in {"useChromeStore", "getFromChromeStore"}
  /\ inbox[c] # <<>>
  /\ Head(inbox[c]).kind = "changed"
  /\ state' = [i \in Inst |-> IF ctx[i] = c THEN ChromeAfterChange(i, Head(inbox[c]))
                              ELSE state[i]]
  /\ threw' = [i \in Inst |-> IF ctx[i] = c /\ ListenersOf(i) # {} THEN "none" ELSE threw[i]]
  /\ hist' = [i \in Inst |-> IF ctx[i] = c /\ mounted[i]
                             THEN ChromeNoted(i, Head(inbox[c])) ELSE hist[i]]
  /\ inbox' = [inbox EXCEPT ![c] = Tail(inbox[c])]
  /\ UNCHANGED <<hook, active, ctx, storage, listeners, requests, mounted, key, persist,
                 defaultValue, value, hasLoaded, promise, nOps>>

\* Raw texts written to chrome.storage by code outside the hook.
ChromeExtEntries == {NoEntry} \cup {Entry(Str(t)) : t \in ExtTexts \ {<<>>}}

ChromeHost ==
  \/ \E a \in Areas, k \in Keys, e \in ChromeExtEntries : ChromeExternalWrite(a, k, e)
  \/ ChromeApplyRead
  \/ ChromeApplyWrite
  \/ \E c \in UsedCtx : ChromeDeliverChanged(c)

ChromeNext ==
  \/ \E i \in active, k \in Keys, d \in Defaults, p \in BOOLEAN : ChromeMount(i, k, d, p)
  \/ \E i \in active, k \in Keys, p \in BOOLEAN : ChromeRender(i, k, p)
  \/ \E i \in active : ChromeUnmount(i)
  \/ \E i \in active, va \in ValueActions : ChromeSetStoredValue(i, va)
  \/ \E c \in UsedCtx : ChromeDeliverResult(c)
  \/ ChromeHost

\* ---------------------------------------------------- getFromChromeStore
\* The callback of storage.get([key], ...) inside the promise: the value the
\* promise is resolved with.
\* Variant: an entry that does not parse is resolved raw.
GetFromChromeStoreCallbackRaw(entry, d) ==
  IF entry.has
  THEN LET r == JSONparse(entry.val)
       IN  IF r.ok THEN r.val ELSE entry.val
  ELSE d
GetFromChromeStoreCallback(entry, d) ==
  IF entry.has
  THEN LET r == JSONparse(entry.val)
       IN  IF r.ok THEN r.val ELSE d
  ELSE d

GetFromChromeStore(i, k, d, p) ==
  /\ hook = "getFromChromeStore"
  /\ promise[i].status # "pending"
  /\ nOps < MaxOps
  /\ Len(requests) < MaxRequests
  /\ nOps' = nOps + 1
  /\ promise' = [promise EXCEPT ![i] =
       [status |-> "pending", key |-> k, defaultValue |-> d, persist |-> p,
        value |-> Undefined, reads |-> 1, settles |-> 0, got |-> NoEntry]]
  /\ requests' = Append(requests, Request("fetch", i, StorageArea(p), k, NoEntry))
  /\ UNCHANGED <<hook, active, ctx, storage, listeners, inbox, mounted, key, persist,
                 defaultValue, state, value, hasLoaded, threw, hist>>

GetFromChromeStoreResolve(c) ==
  /\ hook = "getFromChromeStore"
  /\ inbox[c] # <<>>
  /\ LET m == Head(inbox[c])
         pr == promise[m.inst]
     IN  /\ m.kind = "fetched"
         /\ promise' = [promise EXCEPT ![m.inst] =
              [pr EXCEPT !.status = "resolved",
                         !.value = GetFromChromeStoreCallback(m.entry, pr.defaultValue),
                         !.settles = pr.settles + 1,
                         !.got = m.entry]]
  /\ inbox' = [inbox EXCEPT ![c] = Tail(inbox[c])]
  /\ UNCHANGED <<hook, active, ctx, storage, listeners, requests, mounted, key, persist,
                 defaultValue, state, value, hasLoaded, threw, nOps, hist>>

FetchNext ==
  \/ \E i \in active, k \in Keys, d \in Defaults, p \in BOOLEAN : GetFromChromeStore(i, k, d, p)
  \/ \E c \in UsedCtx : GetFromChromeStoreResolve(c)
  \/ ChromeHost

\* ------------------------------------------------------ specifications
\* One component instance (or caller), in context c1.
InitOne ==
  /\ InitCore
  /\ active = {"A"}
  /\ ctx = [i \in Inst |-> IF i = "A" THEN "c1" ELSE "c2"]

\* Either hook or the helper.
Init == InitOne /\ hook \in Hooks
Next == SimpleNext \/ ChromeNext \/ FetchNext
Spec == Init /\ [][Next]_vars

\* useSimpleStore alone.
InitSimple == InitOne /\ hook = "useSimpleStore"
SpecSimple == InitSimple /\ [][SimpleNext]_vars

\* useChromeStore alone.
InitChrome == InitOne /\ hook = "useChromeStore"
SpecChrome == InitChrome /\ [][ChromeNext]_vars

\* getFromChromeStore alone.
InitFetch == InitOne /\ hook = "getFromChromeStore"
SpecFetch == InitFetch /\ [][FetchNext]_vars

\* Two component instances with fixed props, in one context or in two: the
\* renders are those that leave key and persist as they are.
InitPair ==
  /\ InitCore
  /\ active = Inst
  /\ ctx \in {[i \in Inst |-> "c1"], [i \in Inst |-> IF i = "A" THEN "c1" ELSE "c2"]}

SimplePairNext ==
  \/ \E i \in active, k \in Keys, d \in Defaults, p \in BOOLEAN : SimpleMount(i, k, d, p)
  \/ \E i \in active : SimpleRender(i, key[i], persist[i])
  \/ \E i \in active : SimpleUnmount(i)
  \/ \E i \in active, va \in ValueActions, q \in BOOLEAN : SimpleSetStoredValue(i, va, q)
  \/ \E a \in Areas, k \in Keys, e \in WebExtEntries : WebExternalWrite(a, k, e)
  \/ \E c \in UsedCtx : SimpleDeliver(c)
InitSimplePair == InitPair /\ hook = "useSimpleStore"
SpecSimplePair == InitSimplePair /\ [][SimplePairNext]_vars

\* The extension bindings of the pair are on one key, which is also the key
\* other contexts write.
ChromePairNext ==
  \/ \E i \in active, d \in Defaults, p \in BOOLEAN : ChromeMount(i, "count", d, p)
  \/ \E i \in active : ChromeRender(i, key[i], persist[i])
  \/ \E i \in active : ChromeUnmount(i)
  \/ \E i \in active, va \in ValueActions : ChromeSetStoredValue(i, va)
  \/ \E c \in UsedCtx : ChromeDeliverResult(c)
  \/ \E a \in Areas, e \in ChromeExtEntries : ChromeExternalWrite(a, "count", e)
  \/ ChromeApplyRead
  \/ ChromeApplyWrite
  \/ \E c \in UsedCtx : ChromeDeliverChanged(c)
InitChromePair == InitPair /\ hook = "useChromeStore"
SpecChromePair == InitChromePair /\ [][ChromePairNext]_vars

\* ------------------------------------------------------------ the claims
\* The step in which context c dispatches the change notification at the
\* head of its queue to the mounted instance i.
StorageEventStep(c, i) ==
  /\ inbox[c] # <<>>
  /\ Head(inbox[c]).kind = "storage"
  /\ inbox'[c] = Tail(inbox[c])
  /\ ctx[i] = c /\ mounted[i] /\ mounted'[i]
ChangedStep(c, i) ==
  /\ inbox[c] # <<>>
  /\ Head(inbox[c]).kind = "changed"
  /\ inbox'[c] = Tail(inbox[c])
  /\ ctx[i] = c /\ mounted[i] /\ mounted'[i]
\* The step in which context c runs the initial-read callback at the head of
\* its queue.
ResultStep(c) ==
  /\ inbox[c] # <<>>
  /\ Head(inbox[c]).kind = "result"
  /\ inbox'[c] = Tail(inbox[c])
  /\ mounted'[Head(inbox[c]).inst]

\* C1: after a setter call with value V on key K that returned normally, once
\* the write has reached the area and while no other writer has written K
\* since, the area selected by persist holds under K exactly JSON.stringify(V).
C1_SetterWriteReadsBack ==
  \A i \in Inst :
    LET s == hist[i].set
    IN  s.called /\ s.ok /\ s.applied
          => storage[SelectedArea(s.persist)][s.key] = Entry(JSONstringify(s.val))
C1_Witness ==
  \E i \in Inst :
    /\ hook = "useChromeStore"
    /\ hist[i].set.called /\ hist[i].set.ok /\ hist[i].set.applied
    /\ hist[i].set.val = Str(<<"a">>)
    /\ hist[i].set.persist

\* C2: useSimpleStore, key absent, defaultValue 0, persist = true: after n
\* consecutive setter calls with (prev) => prev + 1 and nothing else in
\* between but re-renders (any number, none included), the in-memory value
\* is n and the stored text is the serialization of n.
C2_CounterReachesN ==
  \A i \in Inst :
    LET n == hist[i].incRun
    IN  n >= 0 =>
          /\ state[i] = Num(n)
          /\ n >= 1 => storage["local"][key[i]] = Entry(Str(Digits(n)))

\* C3: a binding mounted on a key with no entry in the selected area has
\* current value defaultValue, before and after the initial read, as long as
\* no setter call or change notification has occurred.
C3_FreshIsDefault ==
  \A i \in Inst : mounted[i] /\ hist[i].fresh => state[i] = defaultValue[i]
C3_Witness ==
  \E i \in Inst :
    /\ hook = "useChromeStore"
    /\ mounted[i] /\ hist[i].fresh /\ hasLoaded[i]
    /\ hist[i].read = "absent"
    /\ state[i] = Str(<<"d">>)

\* C4: hasLoaded is false until the binding's first initial-read callback has
\* run, true once it has run whatever it found, and stays true afterwards,
\* also while a read issued by a key change is in flight.
C4_LoadedIffRead ==
  \A i \in Inst : mounted[i] => (hasLoaded[i] <=> hist[i].read # "none")
C4_Witness ==
  \E i \in Inst :
    /\ mounted[i] /\ hasLoaded[i]
    /\ hist[i].read = "raw"
    /\ \E n \in 1..Len(requests) : requests[n].op = "get" /\ requests[n].inst = i

\* C5: useChromeStore: a change notification whose area is not the one of the
\* binding's persist, or whose key is not the binding's key, leaves the
\* in-memory value and hasLoaded unchanged.
C5_NonMatchingChangeIgnored ==
  [][\A c \in Ctx, i \in Inst :
       (/\ ChangedStep(c, i)
        /\ Noted(i, Head(inbox[c])) # "own")
         => state'[i] = state[i] /\ hasLoaded'[i] = hasLoaded[i]]_vars

\* C6: useChromeStore: on a change notification for the binding's area and
\* key the in-memory value becomes the parsed new value, or the raw new value
\* when parsing fails with a SyntaxError, and is left as it was on any other
\* failure.
C6_MatchingChangeAdopted ==
  [][\A c \in Ctx, i \in Inst :
       (/\ ChangedStep(c, i)
        /\ Noted(i, Head(inbox[c])) = "own")
         => LET nv == NewValue(Head(inbox[c]))
                r == JSONparse(nv)
            IN  state'[i] = IF r.ok THEN r.val
                            ELSE IF r.error = "SyntaxError" THEN nv
                            ELSE state[i]]_vars

\* C7: the initial-read callback of useChromeStore makes the in-memory value
\* the parsed entry, or the raw entry when it does not parse, leaves it
\* unchanged when the key is absent, throws nothing, and leaves hasLoaded true.
C7_ReadCallbackOutcome ==
  [][\A c \in Ctx :
       ResultStep(c) =>
         LET m == Head(inbox[c])
         IN  /\ state'[m.inst] = IF m.entry.has THEN ParseOrRaw(m.entry.val)
                                 ELSE state[m.inst]
             /\ hasLoaded'[m.inst]
             /\ threw'[m.inst] = "none"]_vars
C7_Witness ==
  \E i \in Inst :
    /\ hist[i].read = "raw"
    /\ state[i] = Str(<<"y", "e", "s">>)
    /\ hasLoaded[i]

\* C8: a call of getFromChromeStore has exactly one read of the selected area
\* outstanding until its promise is resolved, resolves once, with the parsed
\* entry, or with defaultValue when the key is absent or does not parse; it
\* registers no listener and issues no write.
Outstanding(i) ==
  Cardinality({n \in 1..Len(requests) : requests[n].inst = i})
    + Cardinality({n \in 1..Len(inbox[ctx[i]]) :
                     inbox[ctx[i]][n].kind = "fetched" /\ inbox[ctx[i]][n].inst = i})
C8_FetchResolvesOnce ==
  /\ listeners = {}
  /\ \A i \in Inst :
       LET pr == promise[i]
       IN  /\ \A n \in 1..Len(requests) :
                requests[n].inst = i =>
                  /\ requests[n].op = "fetch"
                  /\ requests[n].area = SelectedArea(pr.persist)
                  /\ requests[n].key = pr.key
           /\ pr.status = "none" => Outstanding(i) = 0
           /\ pr.status = "pending" => Outstanding(i) = 1 /\ pr.settles = 0
           /\ pr.status = "resolved" =>
                /\ Outstanding(i) = 0
                /\ pr.reads = 1 /\ pr.settles = 1
                /\ pr.value = IF pr.got.has /\ JSONparse(pr.got.val).ok
                              THEN JSONparse(pr.got.val).val ELSE pr.defaultValue
C8_Witness ==
  \E i \in Inst :
    /\ promise[i].status = "resolved"
    /\ promise[i].got = Entry(Str(<<"y", "e", "s">>))
    /\ promise[i].value = promise[i].defaultValue

\* C9 as claimed: useSimpleStore: a storage event caused by a change to
\* another key than the binding's leaves the in-memory value unchanged.
C9_OtherKeyEventIgnored ==
  [][\A c \in Ctx, i \in Inst :
       (/\ StorageEventStep(c, i)
        /\ Head(inbox[c]).key # key[i])
         => state'[i] = state[i]]_vars
\* C9 as amended: on such an event the binding re-reads its own key: the
\* in-memory value changes only if the area holds under the binding's own key
\* an entry that parses, and then becomes that parsed entry.
C9_OtherKeyEventRereads ==
  [][\A c \in Ctx, i \in Inst :
       (/\ StorageEventStep(c, i)
        /\ Head(inbox[c]).key # key[i])
         => LET own == storage[SelectedArea(persist[i])][key[i]]
            IN  state'[i] = IF own.has /\ JSONparse(own.val).ok
                            THEN JSONparse(own.val).val ELSE state[i]]_vars
C9_Witness ==
  \E i \in Inst :
    LET own == storage[SelectedArea(persist[i])][key[i]]
    IN  /\ hook = "useSimpleStore"
        /\ mounted[i] /\ hist[i].note = "otherKey"
        /\ own = Entry(Str(<<"7">>))
        /\ state[i] = Num(7)
        /\ hist[i].initial = NoEntry

\* C10 as claimed: the in-memory value is the last value the binding wrote,
\* the last value it observed from a change notification, or (useChromeStore,
\* before its first load) defaultValue.
C10_WrittenObservedOrDefault ==
  \A i \in Inst :
    mounted[i] =>
      \/ hist[i].set.called /\ state[i] = hist[i].set.val
      \/ hist[i].observed.has /\ state[i] = hist[i].observed.val
      \/ hook = "useChromeStore" /\ ~hasLoaded[i] /\ state[i] = defaultValue[i]
\* C10 as amended: ... or the value its last initial read of storage found, or
\* defaultValue (either binding, also after the load).
C10_WrittenObservedReadOrDefault ==
  \A i \in Inst :
    mounted[i] =>
      \/ hist[i].set.called /\ state[i] = hist[i].set.val
      \/ hist[i].observed.has /\ state[i] = hist[i].observed.val
      \/ hist[i].initial.has /\ state[i] = hist[i].initial.val
      \/ state[i] = defaultValue[i]
C10_Witness ==
  \E i \in Inst :
    /\ hook = "useSimpleStore"
    /\ mounted[i]
    /\ ~hist[i].set.called /\ ~hist[i].observed.has
    /\ hist[i].initial = Entry(Num(7))
    /\ state[i] = Num(7)

\* Every event and callback queued for a context has been delivered.
Quiet == \A c \in Ctx : inbox[c] = <<>>

\* C11: useSimpleStore: two mounted bindings on the same key and area, in one
\* document or in two: after one of them has called its setter with V, the
\* write stands, every resulting storage event has been delivered and the
\* other binding has made no failed write of its own, the other binding's
\* in-memory value is V.
C11_PairConsistent ==
  \A i, j \in Inst :
    (/\ i # j /\ mounted[i] /\ mounted[j]
     /\ key[i] = key[j] /\ SelectedArea(persist[i]) = SelectedArea(persist[j])
     /\ hist[i].set.called /\ hist[i].set.ok /\ hist[i].set.applied
     /\ hist[i].set.key = key[i] /\ hist[i].set.persist = persist[i]
     /\ ~(hist[j].set.called /\ ~hist[j].set.applied)
     /\ Quiet)
      => state[j] = hist[i].set.val

\* C12: useChromeStore: bindings with fixed props on one key: once every
\* request has been applied and every callback and notification delivered,
\* each mounted binding whose key is present in its area holds the parse of
\* the stored entry (the entry itself if it does not parse), whatever the
\* interleaving of setter calls, reads, writes and notifications was.
C12_QuiescentConsistent ==
  (requests = <<>> /\ Quiet) =>
    \A i \in Inst :
      LET own == storage[SelectedArea(persist[i])][key[i]]
      IN  mounted[i] /\ own.has => state[i] = ParseOrRaw(own.val)
C12_Witness ==
  /\ requests = <<>> /\ Quiet
  /\ ctx["A"] # ctx["B"]
  /\ \A i \in Inst : mounted[i] /\ persist[i] /\ state[i] = Str(<<"a">>)
  /\ storage["local"]["count"] = Entry(Str(<<Q, "a", Q>>))
  /\ hist["A"].set.called /\ hist["A"].set.applied
  /\ hist["B"].read = "absent"

\* C13: a mounted instance has exactly one change listener registered, on
\* its current key (useSimpleStore: and current persist); an unmounted
\* instance has none; so listeners never outnumber the mounted instances.
C13_OneListenerWhileMounted ==
  /\ \A i \in Inst :
       /\ Cardinality(ListenersOf(i)) = IF mounted[i] THEN 1 ELSE 0
       /\ \A l \in ListenersOf(i) :
            /\ l.key = key[i]
            /\ hook = "useSimpleStore" => l.persist = persist[i]
  /\ \A l \in listeners : l.inst \in Inst
C13_Witness ==
  \E i \in Inst :
    /\ hook = "useSimpleStore"
    /\ mounted[i]
    /\ hist[i].set.called /\ hist[i].set.key = "count" /\ hist[i].set.persist
    /\ ListenersOf(i) = {Listener(i, "flag", FALSE)}

\* C14: useSimpleStore: on every storage event the binding re-reads its own
\* key in its own area: with no entry there the in-memory value is kept (it
\* does not become defaultValue); with an entry that parses it becomes the
\* parse; an entry that does not parse leaves it and the SyntaxError escapes.
C14_EventRereadsOwnKey ==
  [][\A c \in Ctx, i \in Inst :
       StorageEventStep(c, i) =>
         LET own == storage[SelectedArea(persist[i])][key[i]]
             r == JSONparse(own.val)
         IN  /\ ~own.has => state'[i] = state[i] /\ threw'[i] = "none"
             /\ own.has /\ r.ok => state'[i] = r.val /\ threw'[i] = "none"
             /\ own.has /\ ~r.ok => state'[i] = state[i] /\ threw'[i] = "SyntaxError"]_vars
C14_Witness ==
  \E i \in Inst :
    /\ mounted[i] /\ hist[i].note = "own"
    /\ ~storage[SelectedArea(persist[i])][key[i]].has
    /\ hist[i].initial = Entry(Num(7))
    /\ state[i] = Num(7)
    /\ Quiet

\* C15: useSimpleStore: whenever an entry exists under the key in the
\* selected area, mount parses it: an entry that parses becomes the value,
\* and every entry that does not, the empty string included, makes the mount
\* fail with the parse error, never with defaultValue as the value.
C15_MountParsesEveryEntry ==
  [][\A i \in Inst, k \in Keys, d \in Defaults, p \in BOOLEAN :
       (SimpleMount(i, k, d, p) /\ storage[SelectedArea(p)][k].has) =>
         LET r == JSONparse(storage[SelectedArea(p)][k].val)
         IN  IF r.ok THEN mounted'[i] /\ state'[i] = r.val
             ELSE ~mounted'[i] /\ threw'[i] = "SyntaxError"]_vars

\* C16: useChromeStore: after a change of persist with the key unchanged
\* (the handler is the one registered before the change) the handler filters
\* by the latest persist: it takes a notification from the area of the new
\* persistence mode and ignores one from the area of the old.
C16_FilterUsesLatestPersist ==
  [][\A c \in Ctx, i \in Inst :
       (/\ ChangedStep(c, i)
        /\ \E l \in ListenersOf(i) : l.key = key[i] /\ l.persist # persist[i])
         => LET m == Head(inbox[c])
            IN  state'[i] = IF Noted(i, m) = "own" THEN ParseOrRaw(NewValue(m))
                            ELSE state[i]]_vars

\* C17: useSimpleStore: a render that changes the key of a mounted binding
\* repeats no read: the in-memory value stays what it was, storage is not
\* touched, and the binding's listener is replaced by one for the new key;
\* afterwards, as ever, the value changes only when a storage event is
\* delivered to the binding's document or its setter is called.
C17_KeyChangeKeepsValue ==
  [][\A i \in Inst :
       (mounted[i] /\ mounted'[i]) =>
         /\ key'[i] # key[i] =>
              /\ state'[i] = state[i]
              /\ storage' = storage
              /\ {l \in listeners' : l.inst = i} = {Listener(i, key'[i], persist'[i])}
         /\ state'[i] # state[i] =>
              \/ inbox[ctx[i]] # <<>> /\ inbox'[ctx[i]] = Tail(inbox[ctx[i]])
              \/ /\ nOps' = nOps + 1
                 /\ hist'[i].set.called /\ state'[i] = hist'[i].set.val]_vars
C17_Witness ==
  \E i \in Inst :
    /\ hook = "useSimpleStore"
    /\ mounted[i] /\ key[i] = "flag" /\ defaultValue[i] = Num(0)
    /\ hist[i].set.called /\ hist[i].set.key = "count"
    /\ state[i] = Str(<<"a">>)
    /\ storage[SelectedArea(persist[i])]["flag"] = Entry(Str(<<"7">>))
    /\ hist[i].note = "none" /\ Quiet

\* C18: useSimpleStore: a setter call whose storage write fails on quota
\* lets QuotaExceededError escape and leaves storage as it was, but the
\* in-memory value is already the new value, which is not what storage holds.
C18_QuotaFailure ==
  [][\A i \in Inst, va \in ValueActions :
       SimpleSetStoredValue(i, va, TRUE) =>
         /\ threw'[i] = "QuotaExceededError"
         /\ storage' = storage
         /\ state'[i] = IF va.isFn THEN Inc(value[i]) ELSE va.lit
         /\ storage'[SelectedArea(persist[i])][key[i]] # Entry(JSONstringify(state'[i]))]_vars
C18_Witness ==
  \E i \in Inst :
    /\ mounted[i] /\ threw[i] = "QuotaExceededError"
    /\ hist[i].set.called /\ ~hist[i].set.applied
    /\ state[i] = Str(<<"a">>)
    /\ hist[i].initial = Entry(Num(7))
    /\ storage[SelectedArea(persist[i])][key[i]] = Entry(Str(<<"7">>))

\* C19: useChromeStore: a notification for the binding's area and key that
\* carries no new value (the key was removed) makes the in-memory value
\* undefined: neither the previous value nor defaultValue.
C19_RemovalGivesUndefined ==
  [][\A c \in Ctx, i \in Inst :
       (/\ ChangedStep(c, i)
        /\ Noted(i, Head(inbox[c])) = "own"
        /\ ~Head(inbox[c]).entry.has)
         => state'[i] = Undefined]_vars

\* C20: a setter call writes nothing but the binding's own key in the area of
\* its current persist (useChromeStore: it issues one set request for that
\* entry, which, when applied, changes that entry only), and it adds and
\* removes no listener.
C20_SetterFrame ==
  [][\A i \in Inst :
       LET a == SelectedArea(persist[i])
           k == key[i]
           Others(a0, k0) == \A b \in Areas, j \in Keys :
                               (b # a0 \/ j # k0) => storage'[b][j] = storage[b][j]
       IN  /\ (\E va \in ValueActions, q \in BOOLEAN : SimpleSetStoredValue(i, va, q))
                => listeners' = listeners /\ Others(a, k)
           /\ (\E va \in ValueActions : ChromeSetStoredValue(i, va))
                => /\ listeners' = listeners /\ storage' = storage
                   /\ Len(requests') = Len(requests) + 1
                   /\ SubSeq(requests', 1, Len(requests)) = requests
                   /\ LET r == requests'[Len(requests')]
                      IN  r.op = "set" /\ r.area = a /\ r.key = k
           /\ (ChromeApplyWrite /\ Head(requests).inst = i)
                => /\ listeners' = listeners
                   /\ Others(Head(requests).area, Head(requests).key)]_vars
C20_Witness ==
  \E i \in Inst :
    LET a == SelectedArea(persist[i])
    IN  /\ mounted[i] /\ key[i] = "count" /\ ~persist[i]
        /\ hist[i].set.called /\ hist[i].set.ok /\ hist[i].set.applied
        /\ storage[a]["count"] = Entry(JSONstringify(hist[i].set.val))
        /\ storage[a]["flag"] = Entry(Str(<<"7">>))
        /\ storage["local"]["count"] = Entry(Str(<<"y", "e", "s">>))
        /\ listeners = {Listener(i, "count", FALSE)}
====
